---- MODULE Spec2Model ----
(***************************************************************************)
(* A model of the quantum Monte-Carlo project: the Quantum Galton Board    *)
(* (quantum_galton_board.py, analysis.py, main_qgb.py), the Quantum        *)
(* Amplitude Estimation run (quantum_simulation.py) and the classical      *)
(* baseline (classical_simulation.py).                                     *)
(*                                                                         *)
(* Numbers.  A Python float that the code obtains by dividing integers is  *)
(* kept as the exact fraction <<numerator, denominator>>.  np.log is kept  *)
(* in fixed point, in units of 1/LnScale, through a table of the           *)
(* logarithms of the primes.  The process-global numpy generator is a      *)
(* deterministic generator with RngMod states.                             *)
(***************************************************************************)
EXTENDS Integers, Sequences, FiniteSets, TLC

VARIABLES
    fn,        \* the function that is called
    arg,       \* its arguments
    ret,       \* what the call returned or raised
    fpc,       \* the position inside the call
    local,     \* the callee's locals: `theta`; the resamples a bootstrap drew;
               \* the locals of run_and_analyze_single_case
    rng,       \* the state of the process-global numpy generator
    results,   \* run_qae_simulation: the results dict; main of main_qgb.py:
               \* how each scenario that was started has ended
    n_done,    \* how many entries of m_values, or scenarios, are completed
    oracle_calls  \* the executions the simulator was asked for, in order

fnvars == <<fn, arg, ret, fpc, local>>

-----------------------------------------------------------------------------
(* Bounds of the model *)

MaxL == 2
MaxDen == 3
MaxShots == 2
MaxBoot == 2
RngMod == 8
MaxScaleQ == 9
MaxSeed == 1
\* main_qgb.py:51, LAYERS = 14: the boards of main have at most QgbLayers layers
QgbLayers == 1
\* quantum_simulation.py:107 and 118, n_boot=200: the QAE run resamples QaeBoot times
QaeBoot == 2
\* the evaluation-qubit counts of the phase-estimation circuits: 1..MaxM
MaxM == 4

(* Program constants *)

\* main_qgb.py:23 and :36 pass scale = layers / 4.0: scales are counted in quarters
ScaleDen == 4
\* analysis.py:53, epsilon = 1e-12: its logarithm in units of 1/LnScale
LnEps == -276310
LnScale == 10000
\* np.percentile(.., 2.5) and (.., 97.5): 2.5 = 1/40 and 97.5 = 39/40
PctDen == 40
PctLoNum == 1
PctHiNum == 39

-----------------------------------------------------------------------------
(* Python values *)

\* a call that has not ended yet, one that returned v, one that raised e
Pending == [kind |-> "pending"]
Return(v) == [kind |-> "return", val |-> v]
Raise(e) == [kind |-> "raise", exc |-> e]

Returned(r) == r.kind = "return"
Raised(r) == r.kind = "raise"

\* a local variable that is not bound yet
Unbound == <<>>

\* a float obtained as n / d
Frac(n, d) == <<n, d>>

RECURSIVE Gcd(_, _)
Gcd(a, b) == IF b = 0 THEN a ELSE Gcd(b, a % b)

Abs(x) == IF x < 0 THEN -x ELSE x

FracLeq(x, y) ==
    LET g == Gcd(x[2], y[2])
    IN  x[1] * (y[2] \div g) <= y[1] * (x[2] \div g)

FracEq(x, y) == FracLeq(x, y) /\ FracLeq(y, x)

FracAdd(x, y) ==
    LET g == Gcd(x[2], y[2])
        n == x[1] * (y[2] \div g) + y[1] * (x[2] \div g)
        d == (x[2] \div g) * y[2]
        h == Gcd(Abs(n), d)
    IN  <<n \div h, d \div h>>

RECURSIVE Pow(_, _)
Pow(b, e) == IF e = 0 THEN 1 ELSE b * Pow(b, e - 1)

RECURSIVE SumSeq(_)
SumSeq(s) == IF s = <<>> THEN 0 ELSE Head(s) + SumSeq(Tail(s))

\* sum(d.values()) of a dict with integer values
RECURSIVE SumValues(_)
SumValues(d) ==
    IF DOMAIN d = {} THEN 0
    ELSE LET k == CHOOSE x \in DOMAIN d : TRUE
         IN  d[k] + SumValues([x \in DOMAIN d \ {k} |-> d[x]])

\* the strings of n binary digits, most significant digit first
Bitstrings(n) == [1..n -> {0, 1}]

CountedDigitMutant(b) == Cardinality({i \in DOMAIN b : b[i] = 0})

\* bitstring.count('1')
CountOnes(b) == Cardinality({i \in DOMAIN b : b[i] = 1})

RECURSIVE IntReversedMutant(_)
IntReversedMutant(b) ==
    IF b = <<>> THEN 0 ELSE Head(b) + 2 * IntReversedMutant(Tail(b))

\* int(bitstr, 2)
RECURSIVE IntBase2(_)
IntBase2(b) ==
    IF b = <<>> THEN 0
    ELSE 2 * IntBase2(SubSeq(b, 1, Len(b) - 1)) + b[Len(b)]

\* format(i, '0{n}b') for 0 <= i < 2^n
FormatBits(i, n) == [k \in 1..n |-> (i \div Pow(2, n - k)) % 2]

-----------------------------------------------------------------------------
(* analysis.py: process_results *)

RECURSIVE AddBins(_, _, _)
AddBins(counts, keys, final_bins) ==
    IF keys = {} THEN final_bins
    ELSE LET bitstring == CHOOSE x \in keys : TRUE
             num_ones == CountOnes(bitstring)
         IN  AddBins(counts, keys \ {bitstring},
                     [final_bins EXCEPT ![num_ones] = @ + counts[bitstring]])

process_results(counts, layers) ==
    LET num_shots == SumValues(counts)
    IN  IF num_shots = 0
        THEN [k \in 0..layers |-> Frac(0, 1)]
        ELSE LET final_bins ==
                     AddBins(counts, DOMAIN counts, [k \in 0..layers |-> 0])
             IN  [k \in 0..layers |-> Frac(final_bins[k], num_shots)]

-----------------------------------------------------------------------------
(* quantum_simulation.py: full_counts_probs *)

RECURSIVE SetProbs(_, _, _, _)
SetProbs(counts, keys, shots_total, probs) ==
    IF keys = {} THEN probs
    ELSE LET bitstr == CHOOSE x \in keys : TRUE
             j == IntBase2(bitstr)
         IN  SetProbs(counts, keys \ {bitstr}, shots_total,
                      [probs EXCEPT ![j] = Frac(counts[bitstr], shots_total)])

full_counts_probs(counts, num_bits) ==
    LET shots_total == SumValues(counts)
        zero == [j \in 0..(Pow(2, num_bits) - 1) |-> Frac(0, 1)]
    IN  IF shots_total = 0 THEN zero
        ELSE SetProbs(counts, DOMAIN counts, shots_total, zero)

-----------------------------------------------------------------------------
(* analysis.py: get_target_distribution; scipy.stats.binom.pmf *)

RECURSIVE Choose(_, _)
Choose(n, k) ==
    IF k = 0 \/ k = n THEN 1 ELSE Choose(n - 1, k - 1) + Choose(n - 1, k)

\* binom.pmf(k, n, p) for p = pn / pd
BinomPmf(k, n, pn, pd) ==
    Frac(Choose(n, k) * Pow(pn, k) * Pow(pd - pn, n - k), Pow(pd, n))

\* prob_one = scale / layers, the scale being scaleq / ScaleDen
ProbOne(scaleq, layers) == Frac(scaleq, ScaleDen * layers)

TargetCheckMutant(prob_one) == ~ (0 <= prob_one[1] /\ prob_one[1] < prob_one[2])

\* analysis.py:35, not (0 <= prob_one <= 1.0)
TargetProbInvalid(prob_one) == ~ (0 <= prob_one[1] /\ prob_one[1] <= prob_one[2])

get_target_distribution(dist_type, layers, scaleq) ==
    IF dist_type = "normal"
    THEN Return([k \in 0..layers |-> BinomPmf(k, layers, 1, 2)])
    ELSE IF dist_type = "exponential"
    THEN LET prob_one == ProbOne(scaleq, layers)
         IN  IF TargetProbInvalid(prob_one)
             THEN Raise("ValueError")
             ELSE Return([k \in 0..layers |->
                             BinomPmf(k, layers, prob_one[1], prob_one[2])])
    ELSE Raise("ValueError")

-----------------------------------------------------------------------------
(* quantum_galton_board.py: get_thetas_for_exponential, create_qgb_circuit *)

ThetasCheckMutant(prob_one) == ~ (prob_one[1] <= prob_one[2])

\* quantum_galton_board.py:55, not (0 <= prob_one <= 1.0)
ThetasProbInvalid(prob_one) == ~ (0 <= prob_one[1] /\ prob_one[1] <= prob_one[2])

\* 2 * np.arcsin(np.sqrt(prob_one)): the angle is kept as this term in prob_one
Theta(prob_one) ==
    LET g == Gcd(prob_one[1], prob_one[2])
    IN  <<"2*arcsin(sqrt", prob_one[1] \div g, prob_one[2] \div g>>

\* [theta] * layers
Repeat(theta, layers) == [i \in 1..layers |-> theta]

\* the whole call, for the callers that do not look inside it
get_thetas_for_exponential(layers, scaleq) ==
    LET prob_one == ProbOne(scaleq, layers)
    IN  IF ThetasProbInvalid(prob_one)
        THEN Raise("ValueError")
        ELSE Return(Repeat(Theta(prob_one), layers))

-----------------------------------------------------------------------------
(* The process-global numpy generator *)

\* one step of the generator
RngNext(r) == (5 * r + 3) % RngMod

\* np.random.seed(seed)
RngSeed(seed) == seed % RngMod

\* one draw of np.random.multinomial's: a category of pvals by the inverse
\* of the cumulative distribution at u = r / RngMod; as in numpy the last
\* category takes what the others leave.  pvals = nums / den.
RECURSIVE Category(_, _, _, _, _)
Category(nums, den, r, j, cum) ==
    IF j = Len(nums) THEN j
    ELSE IF r * den < RngMod * (cum + nums[j]) THEN j
    ELSE Category(nums, den, r, j + 1, cum + nums[j])

\* np.random.multinomial(n, pvals): <<the counts per category, the generator after>>
RECURSIVE Multinomial(_, _, _, _, _)
Multinomial(n, nums, den, r, acc) ==
    IF n = 0 THEN <<acc, r>>
    ELSE LET c == Category(nums, den, r, 1, 0)
         IN  Multinomial(n - 1, nums, den, RngNext(r), [acc EXCEPT ![c] = @ + 1])

-----------------------------------------------------------------------------
(* analysis.py: kl_divergence *)

Primes == {2, 3, 5, 7, 11, 13, 17, 19, 23}

\* np.log of the primes, in units of 1/LnScale
LnPrime ==
    [p \in Primes |->
        CASE p = 2 -> 6931 [] p = 3 -> 10986 [] p = 5 -> 16094
          [] p = 7 -> 19459 [] p = 11 -> 23979 [] p = 13 -> 25649
          [] p = 17 -> 28332 [] p = 19 -> 29444 [] p = 23 -> 31355]

\* np.log(n) of a positive integer, in units of 1/LnScale
RECURSIVE LnInt(_)
LnInt(n) ==
    IF n = 1 THEN 0
    ELSE LET p == CHOOSE x \in Primes : n % x = 0
         IN  LnPrime[p] + LnInt(n \div p)

LnRatioMutant(p, q) ==
    LET g == Gcd(p[1] * q[2], p[2] * q[1])
    IN  LnInt((p[2] * q[1]) \div g) - LnInt((p[1] * q[2]) \div g)

\* np.log(p / q) of two fractions, in units of 1/LnScale
LnRatio(p, q) ==
    LET g == Gcd(p[1] * q[2], p[2] * q[1])
    IN  LnInt((p[1] * q[2]) \div g) - LnInt((p[2] * q[1]) \div g)

\* one term (p + epsilon) * np.log((p + epsilon) / (q + epsilon)), as a
\* fraction in units of 1/LnScale.  epsilon = 1e-12 is below the resolution
\* wherever the entry it is added to is not 0.
KlTerm(p, q) ==
    IF p[1] = 0 THEN Frac(0, 1)
    ELSE IF q[1] = 0 THEN Frac(p[1] * (LnRatio(p, Frac(1, 1)) - LnEps), p[2])
    ELSE Frac(p[1] * LnRatio(p, q), p[2])

\* d.get(k, 0)
Get(d, k) == IF k \in DOMAIN d THEN d[k] ELSE Frac(0, 1)

RECURSIVE KlSum(_, _, _)
KlSum(p, q, keys) ==
    IF keys = {} THEN Frac(0, 1)
    ELSE LET k == CHOOSE x \in keys : TRUE
         IN  FracAdd(KlTerm(Get(p, k), Get(q, k)), KlSum(p, q, keys \ {k}))

kl_divergence(p, q) == KlSum(p, q, DOMAIN p \cup DOMAIN q)

-----------------------------------------------------------------------------
(* numpy: np.mean, np.percentile (linear interpolation) *)

FracSub(x, y) == FracAdd(x, Frac(-y[1], y[2]))

FracMul(x, y) ==
    LET n == x[1] * y[1]
        d == x[2] * y[2]
        h == Gcd(Abs(n), d)
    IN  <<n \div h, d \div h>>

RECURSIVE FracSum(_)
FracSum(s) == IF s = <<>> THEN Frac(0, 1) ELSE FracAdd(Head(s), FracSum(Tail(s)))

RECURSIVE Insert(_, _)
Insert(x, s) ==
    IF s = <<>> THEN <<x>>
    ELSE IF FracLeq(x, Head(s)) THEN <<x>> \o s
    ELSE <<Head(s)>> \o Insert(x, Tail(s))

RECURSIVE Sorted(_)
Sorted(s) == IF s = <<>> THEN <<>> ELSE Insert(Head(s), Sorted(Tail(s)))

Mean(s) == FracMul(FracSum(s), Frac(1, Len(s)))

PercentileUnsortedMutant(s, num) ==
    LET pos == num * (Len(s) - 1)
        f == pos \div PctDen
        r == pos % PctDen
    IN  IF r = 0 THEN s[f + 1]
        ELSE FracAdd(s[f + 1], FracMul(Frac(r, PctDen), FracSub(s[f + 2], s[f + 1])))

\* np.percentile(s, 100 * num / PctDen)
Percentile(s, num) ==
    LET a == Sorted(s)
        pos == num * (Len(s) - 1)
        f == pos \div PctDen
        r == pos % PctDen
    IN  IF r = 0 THEN a[f + 1]
        ELSE FracAdd(a[f + 1], FracMul(Frac(r, PctDen), FracSub(a[f + 2], a[f + 1])))

-----------------------------------------------------------------------------
(* analysis.py: bootstrap_distance *)

\* the resampled counts array as the dict {format(i, '0{layers}b'): count}
ArrayToDict(arr, layers) ==
    [b \in Bitstrings(layers) |-> arr[IntBase2(b) + 1]]

\* the loop of analysis.py:70-80: <<distances, the generator after, the draws>>
RECURSIVE BootDistances(_, _, _, _, _, _, _)
BootDistances(n, num_shots, nums, layers, target_dist, r, acc) ==
    IF n = 0 THEN <<acc[1], r, acc[2]>>
    ELSE LET drawn == Multinomial(num_shots, nums, num_shots, r,
                                  [i \in 1..Len(nums) |-> 0])
             resampled_dist == process_results(ArrayToDict(drawn[1], layers), layers)
             dist == kl_divergence(resampled_dist, target_dist)
         IN  BootDistances(n - 1, num_shots, nums, layers, target_dist, drawn[2],
                           <<Append(acc[1], dist), Append(acc[2], drawn[1])>>)

\* bootstrap_distance with the process-global generator in state r: what it
\* returns or raises, the generator after it, and the resamples it drew
bootstrap_distance(counts, layers, target_dist, n_boot, r) ==
    LET num_shots == SumValues(counts)
    IN  IF num_shots = 0
        THEN [ret |-> Raise("ZeroDivisionError"), rng |-> r, draws |-> <<>>]
        ELSE LET nums == [i \in 1..Pow(2, layers) |->
                            LET b == FormatBits(i - 1, layers)
                            IN  IF b \in DOMAIN counts THEN counts[b] ELSE 0]
                 run == BootDistances(n_boot, num_shots, nums, layers,
                                      target_dist, r, <<<<>>, <<>>>>)
                 distances == run[1]
             IN  [ret |-> Return(<<Mean(distances),
                                   Percentile(distances, PctLoNum),
                                   Percentile(distances, PctHiNum)>>),
                  rng |-> run[2], draws |-> run[3]]

-----------------------------------------------------------------------------
(* quantum_simulation.py: weighted_estimator_from_probs, bootstrap_ci *)

\* the evaluation-qubit counts m for which sin^2(pi * j / 2^m) is rational
QaeMs == {1, 2}

\* math.sin(math.pi * phase) ** 2 for phase = j / 2^m
SinSqPhase(j, m) ==
    LET d == Pow(2, m)
    IN  CASE (2 * j) % d = 0 -> IF j % d = 0 THEN Frac(0, 1) ELSE Frac(1, 1)
          [] (2 * j) % d # 0 /\ (4 * j) % d = 0 -> Frac(1, 2)

RECURSIVE WeightedSum(_, _, _)
WeightedSum(probs, m, keys) ==
    IF keys = {} THEN Frac(0, 1)
    ELSE LET j == CHOOSE x \in keys : TRUE
         IN  FracAdd(FracMul(probs[j], SinSqPhase(j, m)),
                     WeightedSum(probs, m, keys \ {j}))

weighted_estimator_from_probs(probs, m) == WeightedSum(probs, m, DOMAIN probs)

\* the loop of quantum_simulation.py:55-59: <<estimates, the generator after, the draws>>
RECURSIVE BootEstimates(_, _, _, _, _, _, _)
BootEstimates(n, shots, nums, den, m, r, acc) ==
    IF n = 0 THEN <<acc[1], r, acc[2]>>
    ELSE LET drawn == Multinomial(shots, nums, den, r, [i \in 1..Len(nums) |-> 0])
             resampled_probs ==
                 [j \in 0..(Len(nums) - 1) |-> Frac(drawn[1][j + 1], shots)]
             est == weighted_estimator_from_probs(resampled_probs, m)
         IN  BootEstimates(n - 1, shots, nums, den, m, drawn[2],
                           <<Append(acc[1], est), Append(acc[2], drawn[1])>>)

\* bootstrap_ci with the process-global generator in state r: what it
\* returns, the generator after it, and the resamples it drew
bootstrap_ci(counts, m, shots, n_boot, r) ==
    LET probs == full_counts_probs(counts, m)
        total == SumValues(counts)
        den == IF total = 0 THEN 1 ELSE total
        pvec == [i \in 1..Pow(2, m) |-> probs[i - 1][1]]
        run == BootEstimates(n_boot, shots, pvec, den, m, r, <<<<>>, <<>>>>)
        arr == run[1]
    IN  [ret |-> Return(<<Percentile(arr, PctLoNum), Percentile(arr, PctHiNum)>>),
         rng |-> run[2], draws |-> run[3]]

AppendFrontMutant(list, x) == <<x>> \o list

\* list.append(x)
ListAppend(list, x) == Append(list, x)

\* quantum_simulation.py:108-110 and 119-121
AppendResult(res, group, p_est, lo, hi) ==
    [res EXCEPT ![group] =
        [p_est |-> ListAppend(@.p_est, p_est),
         ci_lo |-> ListAppend(@.ci_lo, lo),
         ci_hi |-> ListAppend(@.ci_hi, hi)]]

\* quantum_simulation.py:86-89
EmptyResults ==
    [ideal |-> [p_est |-> <<>>, ci_lo |-> <<>>, ci_hi |-> <<>>],
     noisy |-> [p_est |-> <<>>, ci_lo |-> <<>>, ci_hi |-> <<>>]]

-----------------------------------------------------------------------------
(* classical_simulation.py: run_classical_mc *)

\* (np.random.rand(M) < p_true).sum() with the generator in state r, each
\* draw being u = r / RngMod: <<success_count, the generator after>>
RECURSIVE SuccessCount(_, _, _, _)
SuccessCount(M, p_true, r, acc) ==
    IF M = 0 THEN <<acc, r>>
    ELSE LET hit == IF r * p_true[2] < RngMod * p_true[1] THEN 1 ELSE 0
         IN  SuccessCount(M - 1, p_true, RngNext(r), acc + hit)

FracAbs(x) == Frac(Abs(x[1]), x[2])

\* the loop of classical_simulation.py:16-20: <<errors, the generator after>>
RECURSIVE ClassicalErrors(_, _, _, _)
ClassicalErrors(M_values, p_true, r, errors) ==
    IF M_values = <<>> THEN <<errors, r>>
    ELSE LET M == Head(M_values)
             drawn == SuccessCount(M, p_true, r, 0)
             p_est == Frac(drawn[1], M)
         IN  ClassicalErrors(Tail(M_values), p_true, drawn[2],
                             Append(errors, FracAbs(FracSub(p_est, p_true))))

\* run_classical_mc called with the process-global generator in state r:
\* np.random.seed(seed) replaces that state before the first draw
run_classical_mc(p_true, M_values, seed, r) ==
    LET run == ClassicalErrors(M_values, p_true, RngSeed(seed), <<>>)
    IN  [ret |-> Return(run[1]), rng |-> run[2]]

-----------------------------------------------------------------------------
(* The calls: one function on inputs drawn from bounded sets *)

Layers == 1..MaxL
ScaleQs == (-2)..MaxScaleQ
DistTypes == {"normal", "exponential", "uniform"}
RngStates == 0..(RngMod - 1)

\* the raw counts of one run: the bitstrings of n digits that the mapping
\* holds, each with its count, the counts summing to at most `total`
RECURSIVE DictsOver(_, _)
DictsOver(keys, total) ==
    IF keys = {} THEN {<<>>}
    ELSE LET key == CHOOSE x \in keys : TRUE
         IN  DictsOver(keys \ {key}, total) \cup
             UNION {{[x \in DOMAIN d \cup {key} |-> IF x = key THEN v ELSE d[x]] :
                        d \in DictsOver(keys \ {key}, total - v)} : v \in 0..total}

CountsDicts(n, total) == DictsOver(Bitstrings(n), total)

\* what the simulator returns for a circuit that measures n bits `shots`
\* times: the observed bitstrings, their counts summing to `shots`
OracleCounts(n, shots) ==
    {c \in CountsDicts(n, shots) :
        SumValues(c) = shots /\ \A b \in DOMAIN c : c[b] > 0}

\* the same, tabulated for the executions the model makes
OracleRuns ==
    UNION {UNION {{[bits |-> m, shots |-> n, counts |-> c] : c \in OracleCounts(m, n)} :
                     n \in 1..MaxShots} : m \in QaeMs \cup Layers}

Executions(m, n) == {run \in OracleRuns : run.bits = m /\ run.shots = n}

\* the counts that the bootstrap calls are made on: what a run observed
\* (no bitstring with count 0), and the mappings of total 0 with at most
\* one bitstring
BootCounts(n, total) ==
    {c \in CountsDicts(n, total) : \A b \in DOMAIN c : c[b] > 0} \cup
    {c \in CountsDicts(n, 0) : Cardinality(DOMAIN c) <= 1}

\* the target distributions of the scenarios (scale = layers / 4.0) and the
\* one of scale 0, which has bins of probability 0
BootTargets(l) ==
    {get_target_distribution("normal", l, l).val,
     get_target_distribution("exponential", l, l).val,
     get_target_distribution("exponential", l, 0).val}

\* the probability mappings over the bins 0..l, of denominator den
ProbDicts(l, den) ==
    {[i \in 0..l |-> Frac(f[i], den)] :
        f \in {g \in [0..l -> 0..den] : SumValues(g) = den}}

AllProbDicts == UNION {ProbDicts(l, den) : l \in Layers, den \in 1..MaxDen}

\* the ascending lists of evaluation-qubit counts
MValueLists ==
    {s \in UNION {[1..n -> QaeMs] : n \in 0..Cardinality(QaeMs)} :
        \A i, j \in DOMAIN s : i < j => s[i] < s[j]}

\* main_qgb.py:57-65: the four scenarios of main, in order
MainScenarios ==
    <<[dist_type |-> "normal", use_noise |-> FALSE],
      [dist_type |-> "exponential", use_noise |-> FALSE],
      [dist_type |-> "normal", use_noise |-> TRUE],
      [dist_type |-> "exponential", use_noise |-> TRUE]>>

\* the scenario lists that main is run on: its own, and its own with one
\* label replaced by another kind
ScenarioLists ==
    {MainScenarios} \cup
    {[MainScenarios EXCEPT ![i].dist_type = d] :
        i \in DOMAIN MainScenarios, d \in DistTypes}

\* main.py:23, M_values = [2**m for m in m_values]
MValuesOf(m_values) == [i \in DOMAIN m_values |-> Pow(2, m_values[i])]

Seeds == 0..MaxSeed
PTrues == {Frac(n, MaxDen) : n \in 0..MaxDen}

FnArgs(f) ==
    CASE f = "process_results" ->
           UNION {{[counts |-> c, layers |-> l] : c \in CountsDicts(l, MaxShots)} :
                     l \in Layers}
      [] f = "full_counts_probs" ->
           UNION {{[counts |-> c, num_bits |-> m] : c \in CountsDicts(m, MaxShots)} :
                     m \in Layers}
      [] f = "get_target_distribution" ->
           [dist_type : DistTypes, layers : Layers, scaleq : ScaleQs]
      [] f = "get_thetas_for_exponential" ->
           [layers : Layers, scaleq : ScaleQs]
      [] f = "kl_divergence" ->
           [p : AllProbDicts, q : AllProbDicts]
      [] f = "bootstrap_distance" ->
           UNION {[counts : BootCounts(l, MaxShots), layers : {l},
                   target_dist : BootTargets(l), n_boot : {MaxBoot}] : l \in Layers}
      [] f = "bootstrap_ci" ->
           UNION {UNION {[counts : OracleCounts(m, n), m : {m}, shots : {n},
                          n_boot : 1..MaxBoot] : n \in 1..MaxShots} : m \in QaeMs}
      [] f = "run_qae_simulation" ->
           [m_values : MValueLists, shots : 1..MaxShots, seed : Seeds,
            use_noise : BOOLEAN]
      [] f = "main_qgb" ->
           [scenarios : ScenarioLists, layers : 1..QgbLayers, shots : {MaxShots},
            seed : Seeds]
      [] f = "qpe_circuit" ->
           [p_true : PTrues, m : 1..MaxM]
      [] f = "run_classical_mc" ->
           [p_true : PTrues, M_values : {MValuesOf(s) : s \in MValueLists},
            seed : Seeds]

PureFns ==
    {"process_results", "full_counts_probs", "get_target_distribution",
     "get_thetas_for_exponential", "kl_divergence"}

BootFns ==
    {"bootstrap_distance", "bootstrap_ci", "run_classical_mc", "run_qae_simulation"}

\* the generator when f is called on a: any state for a call on its own; for
\* run_qae_simulation the state in which main.py:26 leaves it, main.py:27
\* calling it with the same seed right after run_classical_mc
RngBefore(f, a) ==
    CASE f \in {"bootstrap_distance", "bootstrap_ci", "run_classical_mc", "main_qgb"} ->
           RngStates
      [] f = "run_qae_simulation" ->
           {run_classical_mc(p, MValuesOf(a.m_values), a.seed, r).rng :
               p \in PTrues, r \in RngStates}
      [] OTHER -> {0}

InitOf(fns) ==
    /\ fn \in fns
    /\ arg \in FnArgs(fn)
    /\ ret = Pending
    /\ fpc = "call"
    /\ local = Unbound
    /\ rng \in RngBefore(fn, arg)
    /\ results = <<>>
    /\ n_done = 0
    /\ oracle_calls = <<>>

qaevars == <<results, n_done, oracle_calls>>

CallProcessResults ==
    /\ fn = "process_results" /\ fpc = "call"
    /\ ret' = Return(process_results(arg.counts, arg.layers))
    /\ fpc' = "done"
    /\ UNCHANGED <<fn, arg, local, rng, qaevars>>

CallFullCountsProbs ==
    /\ fn = "full_counts_probs" /\ fpc = "call"
    /\ ret' = Return(full_counts_probs(arg.counts, arg.num_bits))
    /\ fpc' = "done"
    /\ UNCHANGED <<fn, arg, local, rng, qaevars>>

CallGetTargetDistribution ==
    /\ fn = "get_target_distribution" /\ fpc = "call"
    /\ ret' = get_target_distribution(arg.dist_type, arg.layers, arg.scaleq)
    /\ fpc' = "done"
    /\ UNCHANGED <<fn, arg, local, rng, qaevars>>

\* quantum_galton_board.py:54-56: prob_one is computed and checked
ThetasCheck ==
    /\ fn = "get_thetas_for_exponential" /\ fpc = "call"
    /\ IF ThetasProbInvalid(ProbOne(arg.scaleq, arg.layers))
       THEN ret' = Raise("ValueError") /\ fpc' = "done"
       ELSE ret' = ret /\ fpc' = "checked"
    /\ UNCHANGED <<fn, arg, local, rng, qaevars>>

\* quantum_galton_board.py:59-62: the angle is computed and replicated
ThetasAngle ==
    /\ fn = "get_thetas_for_exponential" /\ fpc = "checked"
    /\ local' = Theta(ProbOne(arg.scaleq, arg.layers))
    /\ ret' = Return(Repeat(local', arg.layers))
    /\ fpc' = "done"
    /\ UNCHANGED <<fn, arg, rng, qaevars>>

CallKlDivergence ==
    /\ fn = "kl_divergence" /\ fpc = "call"
    /\ ret' = Return(kl_divergence(arg.p, arg.q))
    /\ fpc' = "done"
    /\ UNCHANGED <<fn, arg, local, rng, qaevars>>

CallBootstrapDistance ==
    /\ fn = "bootstrap_distance" /\ fpc = "call"
    /\ LET run == bootstrap_distance(arg.counts, arg.layers, arg.target_dist,
                                     arg.n_boot, rng)
       IN  /\ ret' = run.ret
           /\ local' = run.draws
           /\ rng' = run.rng
    /\ fpc' = "done"
    /\ UNCHANGED <<fn, arg, qaevars>>

CallBootstrapCi ==
    /\ fn = "bootstrap_ci" /\ fpc = "call"
    /\ LET run == bootstrap_ci(arg.counts, arg.m, arg.shots, arg.n_boot, rng)
       IN  /\ ret' = run.ret
           /\ local' = run.draws
           /\ rng' = run.rng
    /\ fpc' = "done"
    /\ UNCHANGED <<fn, arg, qaevars>>

CallRunClassicalMc ==
    /\ fn = "run_classical_mc" /\ fpc = "call"
    /\ LET run == run_classical_mc(arg.p_true, arg.M_values, arg.seed, rng)
       IN  /\ ret' = run.ret
           /\ rng' = run.rng
    /\ fpc' = "done"
    /\ UNCHANGED <<fn, arg, local, qaevars>>

-----------------------------------------------------------------------------
(* quantum_simulation.py: run_qae_simulation *)

\* one execution and its analysis, quantum_simulation.py:103-110 (ideal)
\* and 114-121 (noisy): the simulator returns `counts`
QaeRecord(group, m, counts) ==
    LET probs == full_counts_probs(counts, m)
        p_est == weighted_estimator_from_probs(probs, m)
        ci == bootstrap_ci(counts, m, arg.shots, QaeBoot, rng)
    IN  /\ results' = AppendResult(results, group, p_est, ci.ret.val[1], ci.ret.val[2])
        /\ rng' = ci.rng
        /\ oracle_calls' =
               Append(oracle_calls, [group |-> group, m |-> m, counts |-> counts])

\* quantum_simulation.py:71-89
QaeStart ==
    /\ fn = "run_qae_simulation" /\ fpc = "call"
    /\ results' = EmptyResults
    /\ n_done' = 0
    /\ fpc' = "loop"
    /\ UNCHANGED <<fn, arg, ret, local, rng, oracle_calls>>

\* quantum_simulation.py:91-110
QaeIdeal ==
    /\ fn = "run_qae_simulation" /\ fpc = "loop"
    /\ n_done < Len(arg.m_values)
    /\ LET m == arg.m_values[n_done + 1]
       IN  \E run \in Executions(m, arg.shots) : QaeRecord("ideal", m, run.counts)
    /\ IF arg.use_noise
       THEN fpc' = "noisy" /\ n_done' = n_done
       ELSE fpc' = "loop" /\ n_done' = n_done + 1
    /\ UNCHANGED <<fn, arg, ret, local>>

\* quantum_simulation.py:113-121
QaeNoisy ==
    /\ fn = "run_qae_simulation" /\ fpc = "noisy"
    /\ LET m == arg.m_values[n_done + 1]
       IN  \E run \in Executions(m, arg.shots) : QaeRecord("noisy", m, run.counts)
    /\ fpc' = "loop"
    /\ n_done' = n_done + 1
    /\ UNCHANGED <<fn, arg, ret, local>>

\* quantum_simulation.py:123-124
QaeReturn ==
    /\ fn = "run_qae_simulation" /\ fpc = "loop"
    /\ n_done = Len(arg.m_values)
    /\ ret' = Return(results)
    /\ fpc' = "done"
    /\ UNCHANGED <<fn, arg, local, rng, qaevars>>

-----------------------------------------------------------------------------
(* quantum_galton_board.py: create_qgb_circuit; main_qgb.py *)

\* an optional list: None, or the list
None == [is_none |-> TRUE, list |-> <<>>]
Some(list) == [is_none |-> FALSE, list |-> list]

get_thetas_for_hadamard_walk(layers) == None

Gate(name, angle, qubit) == [gate |-> name, angle |-> angle, qubit |-> qubit]

\* quantum_galton_board.py:21-36: the circuit as the list of its operations
create_qgb_circuit(layers, thetas) ==
    LET measure == [i \in 1..layers |-> Gate("measure", Unbound, i - 1)]
    IN  IF thetas.is_none
        THEN Return([i \in 1..layers |-> Gate("h", Unbound, i - 1)] \o measure)
        ELSE IF Len(thetas.list) # layers
        THEN Raise("ValueError")
        ELSE Return([i \in 1..layers |-> Gate("ry", thetas.list[i], i - 1)] \o measure)

ScenarioThetasMutant(dist_type, layers) == Return(None)

\* main_qgb.py:18-25, step 1 of a scenario; scale = layers / 4.0 is
\* `layers` quarters
ScenarioThetas(dist_type, layers) ==
    CASE dist_type = "normal" -> Return(get_thetas_for_hadamard_walk(layers))
      [] dist_type = "exponential" ->
           LET thetas == get_thetas_for_exponential(layers, layers)
           IN  IF Raised(thetas) THEN thetas ELSE Return(Some(thetas.val))
      [] OTHER -> Raise("TypeError")

\* the locals of run_and_analyze_single_case before step 1
NoLocals ==
    [thetas |-> Unbound, circuit |-> Unbound, counts |-> Unbound,
     experimental_dist |-> Unbound, target_dist |-> Unbound, stats |-> Unbound]

Scenario == arg.scenarios[n_done + 1]

\* an exception leaves run_and_analyze_single_case and, main_qgb.py:57-65
\* having no handler, main
Propagate(exc) ==
    /\ ret' = exc
    /\ results' = Append(results, exc)
    /\ fpc' = "done"

\* main_qgb.py:57-65: the next call of run_and_analyze_single_case, or the end
MainNextScenario ==
    /\ fn = "main_qgb" /\ fpc = "call"
    /\ IF n_done < Len(arg.scenarios)
       THEN fpc' = "thetas" /\ ret' = ret
       ELSE fpc' = "done" /\ ret' = Return(None)
    /\ local' = NoLocals
    /\ UNCHANGED <<fn, arg, rng, qaevars>>

\* main_qgb.py:18-25
ScenarioStep1 ==
    /\ fn = "main_qgb" /\ fpc = "thetas"
    /\ LET thetas == ScenarioThetas(Scenario.dist_type, arg.layers)
       IN  IF Raised(thetas)
           THEN Propagate(thetas) /\ local' = local
           ELSE /\ local' = [local EXCEPT !.thetas = thetas.val]
                /\ fpc' = "circuit"
                /\ UNCHANGED <<ret, results>>
    /\ UNCHANGED <<fn, arg, rng, n_done, oracle_calls>>

\* main_qgb.py:28
ScenarioStep2 ==
    /\ fn = "main_qgb" /\ fpc = "circuit"
    /\ LET circuit == create_qgb_circuit(arg.layers, local.thetas)
       IN  IF Raised(circuit)
           THEN Propagate(circuit) /\ local' = local
           ELSE /\ local' = [local EXCEPT !.circuit = circuit.val]
                /\ fpc' = "run"
                /\ UNCHANGED <<ret, results>>
    /\ UNCHANGED <<fn, arg, rng, n_done, oracle_calls>>

\* main_qgb.py:32: the simulator executes the circuit and returns the counts
ScenarioStep3 ==
    /\ fn = "main_qgb" /\ fpc = "run"
    /\ \E run \in Executions(arg.layers, arg.shots) :
           local' = [local EXCEPT !.counts = run.counts]
    /\ oracle_calls' =
           Append(oracle_calls,
                  [scenario |-> n_done + 1, circuit |-> local.circuit,
                   shots |-> arg.shots, seed |-> arg.seed,
                   use_noise |-> Scenario.use_noise])
    /\ fpc' = "process"
    /\ UNCHANGED <<fn, arg, ret, rng, results, n_done>>

\* main_qgb.py:35-36
ScenarioStep4 ==
    /\ fn = "main_qgb" /\ fpc = "process"
    /\ LET experimental_dist == process_results(local.counts, arg.layers)
           target_dist ==
               get_target_distribution(Scenario.dist_type, arg.layers, arg.layers)
       IN  IF Raised(target_dist)
           THEN /\ Propagate(target_dist)
                /\ local' = [local EXCEPT !.experimental_dist = experimental_dist]
           ELSE /\ local' = [local EXCEPT !.experimental_dist = experimental_dist,
                                          !.target_dist = target_dist.val]
                /\ fpc' = "bootstrap"
                /\ UNCHANGED <<ret, results>>
    /\ UNCHANGED <<fn, arg, rng, n_done, oracle_calls>>

\* main_qgb.py:39-45: the bootstrap, the report and the plot end the scenario
\* (n_boot defaults to 500, analysis.py:59; the model resamples MaxBoot times)
ScenarioStep5 ==
    /\ fn = "main_qgb" /\ fpc = "bootstrap"
    /\ LET run == bootstrap_distance(local.counts, arg.layers, local.target_dist,
                                     MaxBoot, rng)
       IN  /\ rng' = run.rng
           /\ IF Raised(run.ret)
              THEN Propagate(run.ret) /\ UNCHANGED <<local, n_done>>
              ELSE /\ local' = [local EXCEPT !.stats = run.ret.val]
                   /\ results' = Append(results, Return(None))
                   /\ n_done' = n_done + 1
                   /\ fpc' = "call"
                   /\ ret' = ret
    /\ UNCHANGED <<fn, arg, oracle_calls>>

QgbNext ==
    \/ MainNextScenario
    \/ ScenarioStep1
    \/ ScenarioStep2
    \/ ScenarioStep3
    \/ ScenarioStep4
    \/ ScenarioStep5

-----------------------------------------------------------------------------
(* quantum_simulation.py: get_qae_operators, the phase-estimation circuit *)

\* one instruction of a circuit: the gate, the qubits it acts on, its parameter
Op(gate, qubits, param) == [gate |-> gate, qubits |-> qubits, param |-> param]

\* the angle of the inverse rotation
NegTheta(theta) == <<"-2*arcsin(sqrt", theta[2], theta[3]>>

\* quantum_simulation.py:11-26: <<A, Q.to_gate()>>, each the list of its
\* instructions on its one qubit
get_qae_operators(p_true) ==
    LET theta_p == Theta(p_true)
        A == <<Op("ry", <<0>>, theta_p)>>
        A_inverse == <<Op("ry", <<0>>, NegTheta(theta_p))>>
        Q == A \o <<Op("z", <<0>>, <<>>)>> \o A_inverse \o <<Op("z", <<0>>, <<>>)>>
    IN  <<A, Q>>

\* qpe.compose(circ, qubits=[q]): the instructions of a one-qubit circuit on q
Compose(circ, q) == [j \in DOMAIN circ |-> Op(circ[j].gate, <<q>>, circ[j].param)]

\* range(n) as a list
Range(n) == [j \in 1..n |-> j - 1]

OracleRepeatsMutant(i) == i + 1

\* quantum_simulation.py:97, range(2**i)
OracleRepeats(i) == Pow(2, i)

\* the circuit under construction and the loop variables of lines 96-97
QpeLocals(qpe, i, k) == [qpe |-> qpe, i |-> i, k |-> k]

\* quantum_simulation.py:83-84 and 93-94
QpeCompose ==
    /\ fn = "qpe_circuit" /\ fpc = "call"
    /\ LET A_op == get_qae_operators(arg.p_true)[1]
       IN  local' = QpeLocals(Compose(A_op, arg.m), 0, 0)
    /\ fpc' = "h"
    /\ UNCHANGED <<fn, arg, ret, rng, qaevars>>

\* quantum_simulation.py:95
QpeHadamard ==
    /\ fn = "qpe_circuit" /\ fpc = "h"
    /\ local' = [local EXCEPT
                    !.qpe = @ \o [j \in 1..arg.m |-> Op("h", <<j - 1>>, <<>>)]]
    /\ fpc' = "oracle"
    /\ UNCHANGED <<fn, arg, ret, rng, qaevars>>

\* quantum_simulation.py:96-98: one qpe.append(c_Q_gate, [i, m])
QpeOracle ==
    /\ fn = "qpe_circuit" /\ fpc = "oracle"
    /\ local.i < arg.m
    /\ LET Q_gate == get_qae_operators(arg.p_true)[2]
           qpe == Append(local.qpe, Op("cQ", <<local.i, arg.m>>, Q_gate))
       IN  IF local.k + 1 < OracleRepeats(local.i)
           THEN local' = QpeLocals(qpe, local.i, local.k + 1)
           ELSE local' = QpeLocals(qpe, local.i + 1, 0)
    /\ UNCHANGED <<fn, arg, ret, fpc, rng, qaevars>>

\* quantum_simulation.py:99
QpeInverseQft ==
    /\ fn = "qpe_circuit" /\ fpc = "oracle"
    /\ local.i = arg.m
    /\ local' = [local EXCEPT !.qpe = Append(@, Op("iqft", Range(arg.m), <<>>))]
    /\ fpc' = "measure"
    /\ UNCHANGED <<fn, arg, ret, rng, qaevars>>

\* quantum_simulation.py:100
QpeMeasure ==
    /\ fn = "qpe_circuit" /\ fpc = "measure"
    /\ local' = [local EXCEPT
                    !.qpe = @ \o [j \in 1..arg.m |-> Op("measure", <<j - 1>>, <<>>)]]
    /\ ret' = Return(local'.qpe)
    /\ fpc' = "done"
    /\ UNCHANGED <<fn, arg, rng, qaevars>>

QpeNext ==
    \/ QpeCompose
    \/ QpeHadamard
    \/ QpeOracle
    \/ QpeInverseQft
    \/ QpeMeasure

-----------------------------------------------------------------------------
(* Specifications *)

FnNext ==
    \/ CallProcessResults
    \/ CallFullCountsProbs
    \/ CallGetTargetDistribution
    \/ ThetasCheck
    \/ ThetasAngle
    \/ CallKlDivergence

BootNext ==
    \/ CallBootstrapDistance
    \/ CallBootstrapCi
    \/ CallRunClassicalMc
    \/ QaeStart
    \/ QaeIdeal
    \/ QaeNoisy
    \/ QaeReturn

vars == <<fn, arg, ret, fpc, local, rng, results, n_done, oracle_calls>>

\* the calls of the functions that draw nothing at random
SpecFn == InitOf(PureFns) /\ [][FnNext]_vars

\* the calls of the bootstraps and the QAE run
SpecBoot == InitOf(BootFns) /\ [][BootNext]_vars

\* main of main_qgb.py
SpecQgb == InitOf({"main_qgb"}) /\ [][QgbNext]_vars

\* the construction of the phase-estimation circuit for one m
SpecQpe == InitOf({"qpe_circuit"}) /\ [][QpeNext]_vars

-----------------------------------------------------------------------------
(* Properties *)

Done(f) == fn = f /\ fpc = "done"

\* the counts of the bitstrings of `counts` that hold exactly k digits '1'
WeightCount(counts, k) ==
    SumValues([b \in {x \in DOMAIN counts : SumSeq(x) = k} |-> counts[b]])

\* C1: process_results(counts, L) returns a mapping over exactly the bins
\* 0..L; every bin is 0 when the counts total 0, and otherwise bin k is the
\* count of the bitstrings with k digits '1' over the total shots, the
\* numerators of the bins summing to the total shots.
C1_ProcessResultsBins ==
    Done("process_results") =>
        LET total == SumValues(arg.counts)
            bins == ret.val
        IN  /\ Returned(ret)
            /\ DOMAIN bins = 0..arg.layers
            /\ total = 0 => \A k \in 0..arg.layers : bins[k][1] = 0
            /\ total # 0 =>
                 /\ \A k \in 0..arg.layers :
                        bins[k] = Frac(WeightCount(arg.counts, k), total)
                 /\ SumValues([k \in 0..arg.layers |-> bins[k][1]]) = total

C1_Witness ==
    /\ Done("process_results")
    /\ arg.layers >= 2
    /\ SumValues(arg.counts) >= 2
    /\ \E b \in DOMAIN arg.counts : arg.counts[b] = 0
    /\ ret.val[arg.layers][1] > 0
    /\ ret.val[1][1] > 0

\* C6: on counts that total 0 process_results, full_counts_probs and
\* bootstrap_distance all end without an error, the first two returning an
\* all-zero distribution.
C6_ZeroShotsNeverRaise ==
    (/\ fpc = "done"
     /\ fn \in {"process_results", "full_counts_probs", "bootstrap_distance"}
     /\ SumValues(arg.counts) = 0)
        => /\ Returned(ret)
           /\ fn # "bootstrap_distance" => \A k \in DOMAIN ret.val : ret.val[k][1] = 0

\* C7: get_thetas_for_exponential(L, s) raises ValueError when s / L is
\* outside [0, 1], before any angle is computed; otherwise it returns a list
\* of exactly L entries, all the same value.
C7_ThetasCheckedFirst ==
    fn = "get_thetas_for_exponential" =>
        LET outside == arg.scaleq < 0 \/ arg.scaleq > ScaleDen * arg.layers
        IN  /\ outside => /\ local = Unbound
                          /\ fpc # "checked"
                          /\ fpc = "done" => Raised(ret) /\ ret.exc = "ValueError"
            /\ (~ outside /\ fpc = "done") =>
                   /\ Returned(ret)
                   /\ Len(ret.val) = arg.layers
                   /\ \A i, j \in 1..Len(ret.val) : ret.val[i] = ret.val[j]
                   /\ local # Unbound

C7_Witness ==
    /\ Done("get_thetas_for_exponential")
    /\ arg.scaleq < 0
    /\ Raised(ret)
    /\ local = Unbound

\* C8: get_target_distribution returns a mapping over exactly the bins 0..L
\* (the key domain of process_results) for 'normal' and for 'exponential'
\* with 0 <= scale / L <= 1; for 'exponential' it raises exactly when
\* scale / L is outside [0, 1], which is exactly when
\* get_thetas_for_exponential raises; it raises for any other kind.
C8_TargetDomainAndErrors ==
    Done("get_target_distribution") =>
        LET outside == arg.scaleq < 0 \/ arg.scaleq > ScaleDen * arg.layers
            thetas == get_thetas_for_exponential(arg.layers, arg.scaleq)
        IN  /\ arg.dist_type = "normal" =>
                 /\ Returned(ret)
                 /\ DOMAIN ret.val = 0..arg.layers
            /\ arg.dist_type = "exponential" =>
                 /\ Raised(ret) <=> outside
                 /\ Raised(ret) <=> Raised(thetas)
                 /\ Returned(ret) =>
                      /\ DOMAIN ret.val = 0..arg.layers
                      /\ DOMAIN ret.val = DOMAIN process_results(<<>>, arg.layers)
            /\ arg.dist_type \notin {"normal", "exponential"} => Raised(ret)

C8_Witness ==
    /\ Done("get_target_distribution")
    /\ arg.dist_type = "exponential"
    /\ arg.scaleq = ScaleDen * arg.layers
    /\ Returned(ret)
    /\ ret.val[arg.layers][1] = ret.val[arg.layers][2]

\* C9: kl_divergence(P, Q), over the union of the keys with missing entries
\* 0 and epsilon added to every entry, is non-negative for two probability
\* mappings, and is 0 when P and Q are equal over the same key domain.
C9_KlNonNegative ==
    Done("kl_divergence") =>
        /\ Returned(ret)
        /\ ret.val[1] >= 0
        /\ (/\ DOMAIN arg.p = DOMAIN arg.q
            /\ \A k \in DOMAIN arg.p : FracEq(arg.p[k], arg.q[k])) => ret.val[1] = 0

C9_Witness ==
    /\ Done("kl_divergence")
    /\ DOMAIN arg.p # DOMAIN arg.q
    /\ \E k \in DOMAIN arg.p \cap DOMAIN arg.q :
           /\ arg.p[k][1] > 0 /\ arg.q[k][1] > 0
           /\ ~ FracLeq(arg.q[k], arg.p[k])
    /\ \E k \in DOMAIN arg.p \cap DOMAIN arg.q : arg.p[k][1] = 0 /\ arg.q[k][1] > 0
    /\ ret.val[1] > 0

AtLoopHead == fn = "run_qae_simulation" /\ fpc \in {"loop", "done"}

Groups == {"ideal", "noisy"}

\* the divergences of the resamples that bootstrap_distance drew
DrawnDistances ==
    [i \in 1..Len(local) |->
        kl_divergence(process_results(ArrayToDict(local[i], arg.layers), arg.layers),
                      arg.target_dist)]

CallOf(g, i) ==
    LET idx == {j \in DOMAIN oracle_calls : oracle_calls[j].group = g}
        nth == CHOOSE j \in idx : Cardinality({x \in idx : x <= j}) = i
    IN  oracle_calls[nth]

\* C3: the results are keyed 'ideal' and 'noisy'; after the first n entries
\* of m_values are processed each ideal list has exactly n entries, entry i
\* being the one of m_values[i], and each noisy list has n entries with
\* noise and none without; at return n is len(m_values).
C3_ResultsAligned ==
    AtLoopHead =>
        /\ DOMAIN results = Groups
        /\ \A g \in Groups :
             LET want == IF g = "ideal" \/ arg.use_noise THEN n_done ELSE 0
             IN  /\ DOMAIN results[g] = {"p_est", "ci_lo", "ci_hi"}
                 /\ Len(results[g].p_est) = want
                 /\ Len(results[g].ci_lo) = want
                 /\ Len(results[g].ci_hi) = want
                 /\ \A i \in 1..want :
                        /\ CallOf(g, i).m = arg.m_values[i]
                        /\ results[g].p_est[i] =
                               weighted_estimator_from_probs(
                                   full_counts_probs(CallOf(g, i).counts, arg.m_values[i]),
                                   arg.m_values[i])
        /\ fpc = "done" =>
             /\ n_done = Len(arg.m_values)
             /\ Returned(ret) /\ ret.val = results

C3_Witness ==
    /\ Done("run_qae_simulation")
    /\ arg.use_noise
    /\ Len(arg.m_values) = 2
    /\ Len(results.noisy.p_est) = 2
    /\ results.ideal.p_est[1] # results.ideal.p_est[2]
    /\ results.ideal.p_est[1] # results.noisy.p_est[1]

ParamErrors == {"TypeError", "ValueError"}

ExecutionsOf(i) == {j \in DOMAIN oracle_calls : oracle_calls[j].scenario = i}

\* C10: in a scenario every parameter error is raised before run_simulation
\* is called: a scenario that ends with a parameter error has executed no
\* circuit and computed no statistics, and once the simulator has been
\* called the scenario raises no parameter error.
C10_ParamErrorsBeforeOracle ==
    fn = "main_qgb" =>
        /\ (fpc = "done" /\ Raised(ret) /\ ret.exc \in ParamErrors) =>
               /\ ExecutionsOf(n_done + 1) = {}
               /\ local.counts = Unbound
               /\ local.experimental_dist = Unbound
               /\ local.target_dist = Unbound
               /\ local.stats = Unbound
        /\ (fpc # "call" /\ ExecutionsOf(n_done + 1) # {}) => ~ Raised(ret)

C10_Witness ==
    /\ Done("main_qgb")
    /\ Raised(ret) /\ ret.exc = "TypeError"
    /\ n_done >= 1
    /\ ExecutionsOf(n_done) # {}
    /\ ExecutionsOf(n_done + 1) = {}

\* C5 as stated: the resampling draws and the results do not depend on the
\* state of the process-global generator before the call: bootstrap_distance,
\* bootstrap_ci and run_classical_mc, called on the same arguments with the
\* generator in any other state, draw and return the same.
C5_SeedDeterminesDraws ==
    /\ Done("bootstrap_distance") =>
           \A r2 \in RngStates :
               LET other == bootstrap_distance(arg.counts, arg.layers, arg.target_dist,
                                               arg.n_boot, r2)
               IN  other.ret = ret /\ other.draws = local
    /\ Done("bootstrap_ci") =>
           \A r2 \in RngStates :
               LET other == bootstrap_ci(arg.counts, arg.m, arg.shots, arg.n_boot, r2)
               IN  other.ret = ret /\ other.draws = local
    /\ Done("run_classical_mc") =>
           \A r2 \in RngStates :
               run_classical_mc(arg.p_true, arg.M_values, arg.seed, r2).ret = ret

\* the positions of the circuit built so far that hold gate g
At(g) == {j \in DOMAIN local.qpe : local.qpe[j].gate = g}

\* C11: the phase-estimation circuit for m holds, in this order: the state
\* preparation on qubit m; a Hadamard on each ancilla 0..m-1; for each
\* ancilla i in ascending order exactly 2^i controlled oracles with control
\* i and target m, 2^m - 1 in all; one inverse Fourier transform over the m
\* ancillas; the measurement of the m ancillas.  No controlled oracle is
\* appended once the inverse transform is in the circuit.
C11_QpeOrder ==
    (fn = "qpe_circuit" /\ fpc # "call") =>
        LET qpe == local.qpe
            m == arg.m
            oracles_done == fpc \in {"measure", "done"} \/ (fpc = "oracle" /\ local.i = m)
        IN  /\ qpe[1].gate = "ry" /\ qpe[1].qubits = <<m>>
            /\ qpe[1].param = Theta(arg.p_true)
            /\ At("ry") = {1}
            /\ fpc # "h" =>
                   /\ At("h") = 2..(m + 1)
                   /\ \A j \in At("h") : qpe[j].qubits = <<j - 2>>
            /\ fpc = "h" => At("h") = {}
            /\ \A j \in At("cQ") :
                   /\ j > m + 1
                   /\ qpe[j].qubits[2] = m
                   /\ qpe[j].qubits[1] \in 0..(m - 1)
                   /\ \A k \in At("cQ") : j < k => qpe[j].qubits[1] <= qpe[k].qubits[1]
                   /\ \A k \in At("iqft") : j < k
            /\ \A i \in 0..(m - 1) :
                   LET n_i == Cardinality({j \in At("cQ") : qpe[j].qubits[1] = i})
                   IN  /\ n_i <= Pow(2, i)
                       /\ oracles_done => n_i = Pow(2, i)
                       /\ (n_i > 0 /\ i > 0) =>
                              Cardinality({j \in At("cQ") : qpe[j].qubits[1] = i - 1})
                                  = Pow(2, i - 1)
            /\ oracles_done => Cardinality(At("cQ")) = Pow(2, m) - 1
            /\ fpc \in {"measure", "done"} =>
                   /\ At("iqft") = {m + 1 + Pow(2, m)}
                   /\ \A j \in At("iqft") : qpe[j].qubits = Range(m)
            /\ fpc \in {"h", "oracle"} => At("iqft") = {}
            /\ fpc = "done" =>
                   /\ At("measure") = (m + 2 + Pow(2, m))..(2 * m + 1 + Pow(2, m))
                   /\ \A j \in At("measure") : qpe[j].qubits = <<j - (m + 2 + Pow(2, m))>>
                   /\ Len(qpe) = 2 * m + 1 + Pow(2, m)
                   /\ Returned(ret) /\ ret.val = qpe
            /\ fpc # "done" => At("measure") = {}

C11_Witness ==
    /\ Done("qpe_circuit")
    /\ arg.m >= 3
    /\ arg.p_true[1] > 0
    /\ Cardinality({j \in At("cQ") : local.qpe[j].qubits[1] = 2}) = 4
    /\ Cardinality(At("cQ")) >= 7

\* C12: full_counts_probs(counts, m), for counts over bitstrings of m digits,
\* returns a mapping over exactly the keys 0..2^m-1; entry j is the count of
\* the bitstring of binary value j over the total shots, 0 when that
\* bitstring was not observed; every entry is in [0, 1], and the entries sum
\* to 1 when the total is not 0.
C12_FullCountsProbs ==
    Done("full_counts_probs") =>
        LET m == arg.num_bits
            total == SumValues(arg.counts)
            probs == ret.val
            keys == 0..(Pow(2, m) - 1)
        IN  /\ Returned(ret)
            /\ DOMAIN probs = keys
            /\ \A j \in keys :
                   LET bitstr == FormatBits(j, m)
                       cnt == IF bitstr \in DOMAIN arg.counts
                              THEN arg.counts[bitstr] ELSE 0
                   IN  /\ total # 0 => FracEq(probs[j], Frac(cnt, total))
                       /\ total = 0 => probs[j][1] = 0
                       /\ probs[j][2] > 0
                       /\ 0 <= probs[j][1] /\ probs[j][1] <= probs[j][2]
            /\ total # 0 => FracEq(FracSum([j \in 1..Pow(2, m) |-> probs[j - 1]]),
                                   Frac(1, 1))

C12_Witness ==
    /\ Done("full_counts_probs")
    /\ arg.num_bits >= 2
    /\ SumValues(arg.counts) >= 2
    /\ <<0, 1>> \in DOMAIN arg.counts /\ arg.counts[<<0, 1>>] > 0
    /\ <<1, 0>> \notin DOMAIN arg.counts
    /\ ret.val[1][1] > 0 /\ ret.val[2][1] = 0
    /\ \E j \in DOMAIN ret.val : j # 1 /\ ret.val[j][1] > 0

====
